---- MODULE Spec2Model ----
(***************************************************************************)
(* A model of scripts/mqtt_sniffer.py: the address resolver                *)
(* (parse_host_port), the topic planner (topics_for_boat,                  *)
(* wildcard_topics), the payload renderer (is_mostly_text, hexdump,        *)
(* on_message) and the session driver (main, on_connect, handle_sigint).   *)
(*                                                                         *)
(* A Python str is modelled as the sequence of its code points and a       *)
(* bytes object as the sequence of its byte values (0..255).  Python's     *)
(* None is the empty tuple and a present optional value v is <<v>>.        *)
(***************************************************************************)
EXTENDS Integers, Sequences, FiniteSets

VARIABLES
    pc,         \* position of main: "parse", "build", "install", "connect",
                \* "subscribe", "loop" (inside loop_forever) or "exit"
    args,       \* the parsed command line (argparse namespace)
    target,     \* what parse_host_port returned: (host, port, use_tls) or an error
    client,     \* the client built by build_client, None before
    subs,       \* the list stashed in the client's userdata
    handler,    \* TRUE once signal.signal installed handle_sigint
    conn,       \* the library's transport: "none", "awaiting_ack", "up", "down"
    io,         \* every effect so far, in order: print, connect, subscribe
                \* and disconnect calls
    exitcode,   \* None while running, then <<how the process ended>>
    events,     \* number of loop events handled (bounded by MaxEvents)
    last,       \* the event handled by the last step, with Len(io) before it
    pending     \* the one message a renderer run is given, None otherwise

vars == <<pc, args, target, client, subs, handler, conn, io, exitcode, events,
          last, pending>>

None == <<>>

Some(v) == <<v>>

(***************************************************************************)
(* Text: the printable ASCII characters, code points 32..126, in order     *)
(* (the grave accent, 96, is spelled out: it cannot stand in a string).    *)
(***************************************************************************)
AsciiTable ==
    <<" ", "!", "\"", "#", "$", "%", "&", "'", "(", ")", "*", "+", ",", "-",
      ".", "/", "0", "1", "2", "3", "4", "5", "6", "7", "8", "9", ":", ";",
      "<", "=", ">", "?", "@", "A", "B", "C", "D", "E", "F", "G", "H", "I",
      "J", "K", "L", "M", "N", "O", "P", "Q", "R", "S", "T", "U", "V", "W",
      "X", "Y", "Z", "[", "\\", "]", "^", "_", "grave", "a", "b", "c", "d", "e",
      "f", "g", "h", "i", "j", "k", "l", "m", "n", "o", "p", "q", "r", "s",
      "t", "u", "v", "w", "x", "y", "z", "{", "|", "}", "~">>

Ord(c) == 31 + (CHOOSE k \in 1..Len(AsciiTable) : AsciiTable[k] = c)

\* The str whose characters are the one-character strings of tuple t.
Str(t) == [i \in 1..Len(t) |-> Ord(t[i])]

\* s[i:] and s[:i] of Python, i counted from 0.
From(s, i) == SubSeq(s, i + 1, Len(s))

Upto(s, i) == SubSeq(s, 1, i)

\* the least element of a set of integers, d when the set is empty
Least(S, d) == IF S = {} THEN d ELSE CHOOSE i \in S : \A j \in S : i <= j

\* str.find: the 0-based index of the first occurrence of sub in s, -1 if none.
Find(s, sub) ==
    Least({i \in 0..(Len(s) - Len(sub)) : SubSeq(s, i + 1, i + Len(sub)) = sub}, -1)

\* sub in s
Contains(s, sub) == Find(s, sub) >= 0

\* str.endswith
EndsWith(s, suffix) ==
    /\ Len(s) >= Len(suffix)
    /\ SubSeq(s, Len(s) - Len(suffix) + 1, Len(s)) = suffix

\* str.lower on ASCII
Lower(s) == [i \in 1..Len(s) |-> IF s[i] \in 65..90 THEN s[i] + 32 ELSE s[i]]

IsDigit(c) == c \in 48..57

IsAlpha(c) == c \in 65..90 \/ c \in 97..122

RECURSIVE ParseInt(_)
\* int(s) of a non-empty string of decimal digits
ParseInt(s) ==
    IF s = <<>> THEN 0 ELSE 10 * ParseInt(Upto(s, Len(s) - 1)) + (s[Len(s)] - 48)

(***************************************************************************)
(* urllib.parse.urlparse, as far as parse_host_port reads its result       *)
(* (scheme, hostname, port), for strings without '@', '[' and ']'.         *)
(***************************************************************************)
SchemeChars == {c \in 32..126 : IsAlpha(c) \/ IsDigit(c)} \cup {43, 45, 46}

Colon == <<58>>

\* the scheme, lowercased, and what follows its colon; i is url.find(':')
SplitScheme(url, i) ==
    IF i > 0 /\ IsAlpha(url[1]) /\ (\A k \in 1..i : url[k] \in SchemeChars)
    THEN [scheme |-> Lower(Upto(url, i)), rest |-> From(url, i + 1)]
    ELSE [scheme |-> <<>>, rest |-> url]

\* s up to its first '/', '?' or '#'
UptoDelimiter(s) ==
    Upto(s, Least({k \in 1..Len(s) : s[k] \in {47, 63, 35}}, Len(s) + 1) - 1)

\* the network location: what follows "//", up to the next delimiter
Netloc(rest) == IF Upto(rest, 2) = <<47, 47>> THEN UptoDelimiter(From(rest, 2)) ELSE <<>>

\* hostname and port text of a network location; c is netloc.find(':')
SplitHostPort(scheme, netloc, c) ==
    [scheme   |-> scheme,
     hostname |-> Lower(IF c < 0 THEN netloc ELSE Upto(netloc, c)), \* empty for None
     portstr  |-> IF c < 0 THEN <<>> ELSE From(netloc, c + 1)]     \* empty for none

UrlOfParts(s, netloc) == SplitHostPort(s.scheme, netloc, Find(netloc, Colon))

UrlOfSplit(s) == UrlOfParts(s, Netloc(s.rest))

urlparse(url) == UrlOfSplit(SplitScheme(url, Find(url, Colon)))

\* u.port raises ValueError for a port that is not decimal or is above 65535.
PortRaises(u) ==
    /\ u.portstr # <<>>
    /\ \/ \E k \in 1..Len(u.portstr) : ~IsDigit(u.portstr[k])
       \/ ParseInt(u.portstr) > 65535

\* u.port when it does not raise: None or <<integer>>
PortOf(u) == IF u.portstr = <<>> THEN None ELSE Some(ParseInt(u.portstr))

(***************************************************************************)
(* parse_host_port                                                         *)
(***************************************************************************)
SSL == Str(<<"s", "s", "l">>)

TCP == Str(<<"t", "c", "p">>)

SchemeSep == Str(<<":", "/", "/">>)

Resolved(host, port, use_tls) ==
    [ok |-> TRUE, host |-> host, port |-> port, use_tls |-> use_tls]

\* raise ValueError(f"Unsupported scheme '{u.scheme}'. Use ssl:// or tcp://")
UnsupportedScheme(scheme) == [ok |-> FALSE, error |-> "scheme", scheme |-> scheme]

\* the ValueError of u.port
InvalidPort == [ok |-> FALSE, error |-> "port"]

\* A plausible slip: the URL's own port wins over an explicit --port.
resolve_url_embedded_first(u, host_arg, port_arg) ==
    IF u.scheme \notin {SSL, TCP} THEN UnsupportedScheme(u.scheme)
    ELSE IF PortRaises(u) THEN InvalidPort
    ELSE Resolved(IF u.hostname # <<>> THEN u.hostname ELSE host_arg,
                  IF PortOf(u) # None /\ PortOf(u)[1] # 0 THEN PortOf(u)[1]
                  ELSE IF port_arg # None THEN port_arg[1]
                  ELSE IF u.scheme = SSL THEN 8883 ELSE 1883,
                  u.scheme = SSL)

\* The branch taken when "://" is in host_arg, u being urlparse(host_arg).
resolve_url(u, host_arg, port_arg) ==
    IF u.scheme \notin {SSL, TCP} THEN UnsupportedScheme(u.scheme)
    ELSE IF port_arg # None
         THEN Resolved(IF u.hostname # <<>> THEN u.hostname ELSE host_arg,
                       port_arg[1], u.scheme = SSL)
    ELSE IF PortRaises(u) THEN InvalidPort
    ELSE Resolved(IF u.hostname # <<>> THEN u.hostname ELSE host_arg,
                  IF PortOf(u) # None /\ PortOf(u)[1] # 0    \* u.port or (...)
                  THEN PortOf(u)[1]
                  ELSE IF u.scheme = SSL THEN 8883 ELSE 1883,
                  u.scheme = SSL)

\* A plausible slip: a bare hostname always gets encryption.
resolve_bare_always_tls(host_arg, port) == Resolved(host_arg, port, TRUE)

\* The branch taken for a bare hostname, port being the explicit port or 8883.
resolve_bare(host_arg, port) == Resolved(host_arg, port, port = 8883)

parse_host_port(host_arg, port_arg) ==
    IF Contains(host_arg, SchemeSep)
    THEN resolve_url(urlparse(host_arg), host_arg, port_arg)
    ELSE resolve_bare(host_arg, IF port_arg = None THEN 8883 ELSE port_arg[1])

(***************************************************************************)
(* Topic planner                                                           *)
(***************************************************************************)
FROM_VEHICLE == Str(<<"/", "f", "r", "o", "m", "_", "v", "e", "h", "i", "c", "l", "e">>)

TO_VEHICLE == Str(<<"/", "t", "o", "_", "v", "e", "h", "i", "c", "l", "e">>)

STATUS == Str(<<"/", "s", "t", "a", "t", "u", "s">>)

BOATS == Str(<<"b", "o", "a", "t", "s", "/">>)

topics_for_boat(boat_id) ==
    <<BOATS \o boat_id \o FROM_VEHICLE,
      BOATS \o boat_id \o TO_VEHICLE,
      BOATS \o boat_id \o STATUS>>

wildcard_topics ==
    <<Str(<<"b", "o", "a", "t", "s", "/", "+", "/", "f", "r", "o", "m", "_",
            "v", "e", "h", "i", "c", "l", "e">>),
      Str(<<"b", "o", "a", "t", "s", "/", "+", "/", "t", "o", "_",
            "v", "e", "h", "i", "c", "l", "e">>),
      Str(<<"b", "o", "a", "t", "s", "/", "+", "/", "s", "t", "a", "t", "u", "s">>)>>

\* each topic paired with the one quality of service
WithQos(ts, qos) == [k \in 1..Len(ts) |-> [topic |-> ts[k], qos |-> qos]]

\* main's subscription list
plan_subs(a) ==
    WithQos(IF a.wildcard THEN wildcard_topics ELSE topics_for_boat(a.boat_id), a.qos)

(***************************************************************************)
(* Payload renderer                                                        *)
(***************************************************************************)
Max(a, b) == IF a >= b THEN a ELSE b

Min(a, b) == IF a <= b THEN a ELSE b

\* 32 <= b <= 126 or b in (9, 10, 13)
IsTextByte(b) == (32 <= b /\ b <= 126) \/ b \in {9, 10, 13}

\* sum(1 for b in payload if ...)
Printable(payload) == Cardinality({j \in 1..Len(payload) : IsTextByte(payload[j])})

\* A plausible slip: >= in place of >.
is_mostly_text_at_least(payload) ==
    IF payload = <<>> THEN TRUE
    ELSE Printable(payload) * 100 >= 85 * Max(1, Len(payload))

\* printable / max(1, len(payload)) > 0.85.  The quotient is the double
\* nearest to printable/len and 0.85 is the double nearest to 17/20; for a
\* payload of fewer than 2^48 bytes the two compare as the exact fractions do.
is_mostly_text(payload) ==
    IF payload = <<>> THEN TRUE
    ELSE Printable(payload) * 100 > 85 * Max(1, Len(payload))

Width == 16

HexDigit(d) == IF d < 10 THEN 48 + d ELSE 87 + d

RECURSIVE HexDigits(_)
\* the hexadecimal digits of n, lowercase, without padding
HexDigits(n) ==
    IF n < 16 THEN <<HexDigit(n)>>
    ELSE Append(HexDigits(n \div 16), HexDigit(n % 16))

\* f"{n:0{w}x}": at least w digits, zero-filled on the left
FormatHex(n, w) == [k \in 1..(w - Len(HexDigits(n))) |-> 48] \o HexDigits(n)

\* f"{s:<{w}}": at least w characters, space-filled on the right
LeftJustify(s, w) == s \o [k \in 1..(w - Len(s)) |-> 32]

RECURSIVE Join(_, _)
\* sep.join(parts)
Join(sep, parts) ==
    IF parts = <<>> THEN <<>>
    ELSE IF Len(parts) = 1 THEN parts[1]
    ELSE Join(sep, Upto(parts, Len(parts) - 1)) \o sep \o parts[Len(parts)]

\* A plausible slip: the offset field keeps its four lowest digits only.
FormatOffset_truncated(i) == FormatHex(i % 65536, 4)

\* f"{i:04x}"
FormatOffset(i) == FormatHex(i, 4)

\* the line of one chunk: offset, hex pairs, ASCII column
FormatLine(i, chunk) ==
    FormatOffset(i) \o <<32, 32>>
    \o LeftJustify(Join(<<32>>, [k \in 1..Len(chunk) |-> FormatHex(chunk[k], 2)]),
                   Width * 3)
    \o <<32, 32>>
    \o [k \in 1..Len(chunk) |-> IF 32 <= chunk[k] /\ chunk[k] <= 126 THEN chunk[k] ELSE 46]

\* one pass of hexdump's loop: the line for chunk b[i : i + width]
hexdump_line(b, i) == FormatLine(i, SubSeq(b, i + 1, Min(i + Width, Len(b))))

\* hexdump's list of lines, one for each i of range(0, len(b), width).  The
\* lines hold no line feed, so "\n".join(lines) prints as exactly these lines.
hexdump(b) ==
    [k \in 1..((Len(b) + Width - 1) \div Width) |-> hexdump_line(b, Width * (k - 1))]

\* payload.decode('utf-8', errors='replace') for payloads whose bytes above
\* 127 are 0x80 or 0xff, which begin no valid sequence: each becomes U+FFFD.
Decode(payload) ==
    [k \in 1..Len(payload) |-> IF payload[k] < 128 THEN payload[k] ELSE 65533]

\* the bytes 0x00, 0x01, ..., 0xff, 0x00, ... of length n
Ramp(n) == SubSeq([j \in 1..n |-> (j - 1) % 256], 1, n)

\* msg.payload: a message in flight carries its payload as some explicit
\* bytes followed by a ramp (of length 0 for most)
Payload(m) == m.body.bytes \o Ramp(m.body.ramp)

\* info = f"[{ts}] {topic} (QoS {msg.qos}, {len(payload)} bytes)"
Info(topic, qos, payload) == [topic |-> topic, qos |-> qos, nbytes |-> Len(payload)]

\* the print calls of on_message's try block, in order
RenderingOf(topic, qos, payload) ==
    IF EndsWith(topic, STATUS) /\ is_mostly_text(payload)
    THEN <<[kind |-> "text", info |-> Info(topic, qos, payload), text |-> Decode(payload)]>>
    ELSE <<[kind |-> "header", info |-> Info(topic, qos, payload)],
           [kind |-> "dump", lines |-> hexdump(payload)]>>

Rendering(m) == RenderingOf(m.topic, m.qos, Payload(m))

(***************************************************************************)
(* Effects                                                                 *)
(***************************************************************************)
Printed(line) == [op |-> "print", line |-> line]

\* client.subscribe(topic, qos=qos); ack is 0 for main's own requests and n
\* for those of the n-th successful acknowledgment
Subscribe(sub, ack) == [op |-> "subscribe", topic |-> sub.topic, qos |-> sub.qos, ack |-> ack]

IsPrint(e, kind) == e.op = "print" /\ e.line.kind = kind

IsConnected(e) == IsPrint(e, "connected")

Acks == Len(SelectSeq(io, IsConnected))

Exit(how, status) == Some([how |-> how, status |-> status])

NoEvent == [kind |-> "none", mark |-> 0]

(***************************************************************************)
(* main, up to loop_forever                                                *)
(***************************************************************************)
\* what main does with parse_host_port's result r
MainParsed(r) ==
    /\ target' = r
    /\ IF r.ok
       THEN /\ pc' = "build"
            /\ UNCHANGED <<io, exitcode>>
       ELSE /\ io' = Append(io, Printed([kind |-> "invalid_host", error |-> r]))
            /\ pc' = "exit"
            /\ exitcode' = Exit("return", 2)

MainParse ==
    /\ pc = "parse"
    /\ MainParsed(parse_host_port(args.host, args.port))
    /\ last' = NoEvent
    /\ UNCHANGED <<args, client, subs, handler, conn, events, pending>>

\* build_client: a clean-session client, TLS set up when use_tls
build_client(use_tls) == Some([clean_session |-> TRUE, tls |-> use_tls])

MainBuild ==
    /\ pc = "build"
    /\ client' = build_client(target.use_tls)
    /\ subs' = plan_subs(args)
    /\ pc' = "install"
    /\ UNCHANGED <<args, target, handler, conn, io, exitcode, events, last, pending>>

MainInstall ==
    /\ pc = "install"
    /\ handler' = TRUE
    /\ pc' = "connect"
    /\ UNCHANGED <<args, target, client, subs, conn, io, exitcode, events, last, pending>>

\* print, then client.connect(host, port=port, keepalive=60), which raises or not
MainConnect ==
    /\ pc = "connect"
    /\ \E raises \in BOOLEAN :
        /\ io' = io \o <<Printed([kind |-> "connecting", host |-> target.host,
                                  port |-> target.port, use_tls |-> target.use_tls]),
                         [op |-> "connect", host |-> target.host, port |-> target.port]>>
                    \o (IF raises THEN <<Printed([kind |-> "connection_error"])>> ELSE <<>>)
        /\ pc' = IF raises THEN "exit" ELSE "subscribe"
        /\ exitcode' = IF raises THEN Exit("return", 1) ELSE exitcode
        /\ conn' = IF raises THEN conn ELSE "awaiting_ack"
    /\ UNCHANGED <<args, target, client, subs, handler, events, last, pending>>

\* for topic, qos in subs: client.subscribe(topic, qos=qos)
MainSubscribe ==
    /\ pc = "subscribe"
    /\ io' = io \o [k \in 1..Len(subs) |-> Subscribe(subs[k], 0)]
    /\ pc' = "loop"
    /\ UNCHANGED <<args, target, client, subs, handler, conn, exitcode, events, last, pending>>

(***************************************************************************)
(* loop_forever: the callbacks and the library's own reconnecting          *)
(***************************************************************************)
MaxEvents == 4

\* for topic, qos in subs: subscribe, then print the confirmation
SubscribeLoop(ack) ==
    [k \in 1..(2 * Len(subs)) |->
        IF k % 2 = 1
        THEN Subscribe(subs[(k + 1) \div 2], ack)
        ELSE Printed([kind |-> "subscribed", topic |-> subs[k \div 2].topic,
                      qos |-> subs[k \div 2].qos])]

\* A plausible slip: only the first acknowledgment subscribes.
on_connect_effects_first_only(rc) ==
    IF rc = 0
    THEN <<Printed([kind |-> "connected"])>> \o
         (IF Acks > 0 THEN <<>> ELSE SubscribeLoop(Acks + 1))
    ELSE <<Printed([kind |-> "connect_failed", rc |-> rc])>>

\* A plausible slip: a refused connection subscribes all the same.
on_connect_effects_ignoring_rc(rc) ==
    <<Printed([kind |-> "connect_failed", rc |-> rc])>> \o SubscribeLoop(Acks + 1)

\* A plausible slip: the confirmation line is printed once, after the loop.
on_connect_effects_one_confirmation(rc) ==
    IF rc = 0
    THEN <<Printed([kind |-> "connected"])>> \o
         [k \in 1..Len(subs) |-> Subscribe(subs[k], Acks + 1)] \o
         <<Printed([kind |-> "subscribed", topic |-> subs[Len(subs)].topic,
                    qos |-> subs[Len(subs)].qos])>>
    ELSE <<Printed([kind |-> "connect_failed", rc |-> rc])>>

\* what on_connect does: a print, then a subscribe and a print for each entry
on_connect_effects(rc) ==
    IF rc = 0
    THEN <<Printed([kind |-> "connected"])>> \o SubscribeLoop(Acks + 1)
    ELSE <<Printed([kind |-> "connect_failed", rc |-> rc])>>

\* the connection acknowledgment arrives with return code rc
on_connect(rc) ==
    /\ pc = "loop"
    /\ conn = "awaiting_ack"
    /\ events < MaxEvents
    /\ io' = io \o on_connect_effects(rc)
    /\ conn' = IF rc = 0 THEN "up" ELSE "down"
    /\ last' = [kind |-> "connack", rc |-> rc, mark |-> Len(io)]
    /\ events' = events + 1
    /\ UNCHANGED <<pc, args, target, client, subs, handler, exitcode, pending>>

\* A plausible slip: no except clause; the error leaves loop_forever and
\* main's own handler ends the process.
on_message_except_missing(done) ==
    /\ io' = io \o done \o <<Printed([kind |-> "connection_error"])>>
    /\ pc' = "exit"
    /\ exitcode' = Exit("return", 1)
    /\ conn' = conn

\* except Exception as e: print(f"[{ts}] Error printing message: {e}"),
\* after the print calls `done` that came before the raise
on_message_except(done) ==
    /\ io' = io \o done \o <<Printed([kind |-> "render_error"])>>
    /\ UNCHANGED <<pc, exitcode, conn>>

\* the try block: the print calls r in order, the fail-th raising (0: none)
on_message_try(r, fail) ==
    /\ fail <= Len(r)
    /\ IF fail = 0
       THEN /\ io' = io \o r
            /\ UNCHANGED <<pc, exitcode, conn>>
       ELSE on_message_except(Upto(r, fail - 1))

Printeds(lines) == [k \in 1..Len(lines) |-> Printed(lines[k])]

\* message m arrives; fail = 0, or the number of the print call that raises
on_message(m, fail) ==
    /\ pc = "loop"
    /\ conn = "up"
    /\ events < MaxEvents
    /\ on_message_try(Printeds(Rendering(m)), fail)
    /\ last' = [kind |-> "message", msg |-> m, fail |-> fail, mark |-> Len(io)]
    /\ events' = events + 1
    /\ UNCHANGED <<args, target, client, subs, handler>>

\* the transport is lost; the library notices inside loop_forever
TransportDrop ==
    /\ pc = "loop"
    /\ conn \in {"awaiting_ack", "up"}
    /\ events < MaxEvents
    /\ conn' = "down"
    /\ last' = [kind |-> "drop", mark |-> Len(io)]
    /\ events' = events + 1
    /\ UNCHANGED <<pc, args, target, client, subs, handler, io, exitcode, pending>>

\* the library's automatic reconnect attempt succeeds or fails
Reconnect ==
    /\ pc = "loop"
    /\ conn = "down"
    /\ events < MaxEvents
    /\ \E ok \in BOOLEAN :
        /\ conn' = IF ok THEN "awaiting_ack" ELSE "down"
        /\ last' = [kind |-> "reconnect", ok |-> ok, mark |-> Len(io)]
    /\ events' = events + 1
    /\ UNCHANGED <<pc, args, target, client, subs, handler, io, exitcode, pending>>

\* handle_sigint: print, client.disconnect() with its failure ignored, sys.exit(0)
handle_sigint_effects(raises) ==
    [io   |-> <<Printed([kind |-> "disconnecting"]), [op |-> "disconnect"]>>,
     exit |-> Exit("sys.exit", 0)]

\* SIGINT is delivered.  Before signal.signal has run, Python's default
\* handler raises KeyboardInterrupt, which no except clause of main catches:
\* the process ends with a traceback and a non-zero status.
Sigint ==
    /\ pc # "exit"
    /\ \E raises \in BOOLEAN :
        IF handler
        THEN /\ io' = io \o handle_sigint_effects(raises).io
             /\ exitcode' = handle_sigint_effects(raises).exit
             /\ conn' = IF raises \/ conn = "none" THEN conn ELSE "closing"
             /\ last' = [kind |-> "sigint", raises |-> raises, mark |-> Len(io)]
        ELSE /\ ~raises
             /\ exitcode' = Exit("KeyboardInterrupt", 130)
             /\ last' = [kind |-> "sigint", raises |-> FALSE, mark |-> Len(io)]
             /\ UNCHANGED <<io, conn>>
    /\ pc' = "exit"
    /\ UNCHANGED <<args, target, client, subs, handler, events, pending>>

(***************************************************************************)
(* Inputs                                                                  *)
(***************************************************************************)
\* --host as typed: [scheme "://"] name [":" port]
MkHost(scheme, name, eport) ==
    (IF scheme = <<>> THEN <<>> ELSE scheme \o SchemeSep) \o name \o
    (IF eport = <<>> THEN <<>> ELSE Colon \o eport)

\* The argparse namespace; form remembers the parts --host was typed from.
Namespace(scheme, name, eport, port, wildcard, boat_id, qos) ==
    [host     |-> MkHost(scheme, name, eport),
     port     |-> port,
     wildcard |-> wildcard,
     boat_id  |-> boat_id,
     qos      |-> qos,
     form     |-> [scheme |-> scheme, name |-> name, eport |-> eport]]

WS == Str(<<"w", "s">>)

HostH == Str(<<"h">>)

BoatX == Str(<<"x">>)

ParseSchemes == {<<>>, SSL, TCP, WS, Str(<<"S", "S", "L">>)}

ParseNames == {HostH, Str(<<"b", ".", "i", "o">>)}

ParseEmbedded ==
    {<<>>, Str(<<"9", "0", "0", "0">>), Str(<<"1", "8", "8", "3">>), Str(<<"0">>),
     Str(<<"7", "0", "0", "0", "0">>), Str(<<"x">>)}

ParsePorts == {None, Some(0), Some(-1), Some(1883), Some(8883), Some(9000), Some(70000)}

ParseArgs ==
    {Namespace(sc, nm, ep, pt, FALSE, BoatX, 1) :
        sc \in ParseSchemes, nm \in ParseNames, ep \in ParseEmbedded, pt \in ParsePorts}

MainHosts ==
    {<<<<>>, <<>>>>, <<SSL, <<>>>>, <<TCP, Str(<<"9", "0", "0", "0">>)>>, <<WS, <<>>>>}

MainArgs ==
    {Namespace(h[1], HostH, h[2], pt, wc, bt, q) :
        h \in MainHosts, pt \in {None, Some(1883), Some(0)}, wc \in BOOLEAN,
        bt \in {BoatX, Str(<<"b", "2">>)}, q \in {0, 2}}

Message(topic, qos, bytes, ramp) ==
    [topic |-> topic, qos |-> qos, body |-> [bytes |-> bytes, ramp |-> ramp]]

StatusTopic == BOATS \o BoatX \o STATUS

FromTopic == BOATS \o BoatX \o FROM_VEHICLE

\* the messages of a session run
Msgs ==
    {Message(StatusTopic, 1, Str(<<"O", "K">>), 0),
     Message(FromTopic, 0, <<>>, 4),
     Message(StatusTopic, 0, <<0, 255>>, 0)}

\* the connection acknowledgment codes: accepted, refused (not authorised)
ReturnCodes == {0, 5}

MaxLen == 2

BigLen == 65537

SampleBytes == {0, 9, 31, 32, 65, 126, 127, 128, 255}

\* n bytes of which the first p are printable
Mixed(n, p) == SubSeq([j \in 1..n |-> IF j <= p THEN 65 ELSE 0], 1, n)

RECURSIVE BytesOfLen(_)
\* every payload of n sample bytes
BytesOfLen(n) ==
    IF n = 0 THEN {<<>>}
    ELSE {Append(p, b) : p \in BytesOfLen(n - 1), b \in SampleBytes}

RenderPayloads ==
    UNION {BytesOfLen(n) : n \in 0..MaxLen}
    \cup {Mixed(100, p) : p \in {80, 85, 86, 90}}
    \cup {Mixed(20, p) : p \in {17, 18}}

RenderTopics ==
    {StatusTopic, FromTopic, Str(<<"s", "t", "a", "t", "u", "s">>),
     StatusTopic \o Str(<<"2">>)}

\* the messages of a renderer run
RenderMsgs ==
    {Message(t, 1, p, 0) : t \in RenderTopics, p \in RenderPayloads}
    \cup {Message(t, 1, <<>>, n) : t \in RenderTopics, n \in {15, 16, 17, 32, 33}}
    \cup {Message(FromTopic, 1, <<>>, BigLen)}

(***************************************************************************)
(* Specifications                                                          *)
(***************************************************************************)
Start(a, m) ==
    /\ pc = "parse"
    /\ args = a
    /\ target = None
    /\ client = None
    /\ subs = <<>>
    /\ handler = FALSE
    /\ conn = "none"
    /\ io = <<>>
    /\ exitcode = None
    /\ events = 0
    /\ last = NoEvent
    /\ pending = m

Connack == \E rc \in ReturnCodes : on_connect(rc)

Deliver ==
    \E m \in Msgs, fail \in 0..2 : on_message(m, fail) /\ pending' = pending

DeliverPending ==
    /\ pending # None
    /\ \E fail \in 0..2 : on_message(pending[1], fail)
    /\ pending' = None

\* A session: main from its first line, with every event loop_forever handles.
Init == \E a \in MainArgs : Start(a, None)

Next ==
    \/ MainParse
    \/ MainBuild
    \/ MainInstall
    \/ MainConnect
    \/ MainSubscribe
    \/ Connack
    \/ Deliver
    \/ TransportDrop
    \/ Reconnect
    \/ Sigint

Spec == Init /\ [][Next]_vars

\* The address resolver alone, over a wide set of command lines.
InitParse == \E a \in ParseArgs : Start(a, None)

SpecParse == InitParse /\ [][MainParse]_vars

\* The renderer: one session brought up, then one message of a wide set.
RenderNamespace == Namespace(SSL, HostH, <<>>, None, FALSE, BoatX, 1)

InitRender == \E m \in RenderMsgs : Start(RenderNamespace, Some(m))

NextRender ==
    \/ MainParse
    \/ MainBuild
    \/ MainInstall
    \/ MainConnect
    \/ MainSubscribe
    \/ Connack
    \/ DeliverPending

SpecRender == InitRender /\ [][NextRender]_vars

(***************************************************************************)
(* Properties                                                              *)
(***************************************************************************)
\* the effects of the last event
NewEffects == SubSeq(io, last.mark + 1, Len(io))

IsSubscribe(e) == e.op = "subscribe"

IsConfirmation(e) == IsPrint(e, "subscribed")

IsConnect(e) == e.op = "connect"

\* a request of main's own loop, after its connect call
IsMainRequest(e) == IsSubscribe(e) /\ e.ack = 0

IsRenderError(e) == IsPrint(e, "render_error")

IsConnectFailed(e) == IsPrint(e, "connect_failed")

\* topic and quality of service of each subscribe request of a sequence of effects
Requests(effects) ==
    [k \in 1..Len(SelectSeq(effects, IsSubscribe)) |->
        [topic |-> SelectSeq(effects, IsSubscribe)[k].topic,
         qos   |-> SelectSeq(effects, IsSubscribe)[k].qos]]

\* the requests of the n-th successful acknowledgment
RequestsOfAck(n) ==
    Requests(SelectSeq(io, LAMBDA e : IsSubscribe(e) /\ e.ack = n))

\* the list the command line asks for: from_vehicle, to_vehicle, status
StatedSubs ==
    LET id == IF args.wildcard THEN <<43>> ELSE args.boat_id    \* 43 is '+'
    IN  <<[topic |-> BOATS \o id \o FROM_VEHICLE, qos |-> args.qos],
          [topic |-> BOATS \o id \o TO_VEHICLE, qos |-> args.qos],
          [topic |-> BOATS \o id \o STATUS, qos |-> args.qos]>>

\* C1: once main has built it, the subscription list is the three entries
\* from_vehicle, to_vehicle, status of 'boats/+' (--wildcard) or
\* 'boats/<boat-id>', each with --qos, and stays so; every successful
\* acknowledgment, the first and each later one, issues exactly that list,
\* in order.
C1_EveryAckSubscribesTheFixedList ==
    /\ pc \in {"install", "connect", "subscribe", "loop"} => subs = StatedSubs
    /\ \A n \in 1..Acks : RequestsOfAck(n) = StatedSubs
    /\ (last.kind = "connack" /\ last.rc = 0) => Requests(NewEffects) = StatedSubs

\* C1's case: a reconnect was acknowledged, in wildcard mode.
C1_Witness ==
    /\ Acks = 2
    /\ args.wildcard
    /\ last.kind = "connack"

\* C9 as stated: as many subscribe requests as confirmation lines, and no
\* request before the first successful acknowledgment.
C9_AsStated ==
    /\ Len(SelectSeq(io, IsSubscribe)) = Len(SelectSeq(io, IsConfirmation))
    /\ Acks = 0 => SelectSeq(io, IsSubscribe) = <<>>

\* C9, amended: every request on_connect issues is followed at once by the
\* confirmation line of its topic and quality of service, and every
\* confirmation line follows such a request; main itself issues the list
\* once more, unconfirmed, right after its connect call and before any
\* acknowledgment; so the requests number the confirmation lines plus
\* three once main has entered the loop.
C9_RequestsOfAcksAreConfirmed ==
    /\ \A i \in 1..Len(io) :
        /\ (IsSubscribe(io[i]) /\ io[i].ack > 0) =>
              /\ i < Len(io)
              /\ io[i + 1] = Printed([kind |-> "subscribed", topic |-> io[i].topic,
                                      qos |-> io[i].qos])
        /\ (IsSubscribe(io[i]) /\ io[i].ack = 0) =>
              /\ SelectSeq(SubSeq(io, 1, i), IsConnected) = <<>>
              /\ i > 1 /\ (IsConnect(io[i - 1]) \/ IsSubscribe(io[i - 1]))
        /\ IsConfirmation(io[i]) =>
              /\ i > 1
              /\ IsSubscribe(io[i - 1]) /\ io[i - 1].ack > 0
    /\ Len(SelectSeq(io, IsSubscribe))
         = Len(SelectSeq(io, IsConfirmation)) + Len(SelectSeq(io, IsMainRequest))
    /\ Len(SelectSeq(io, IsMainRequest)) \in {0, 3}
    /\ (pc = "loop" \/ Acks > 0) => Len(SelectSeq(io, IsMainRequest)) = 3
    /\ pc \notin {"loop", "exit"} => SelectSeq(io, IsMainRequest) = <<>>

\* C9's case: an acknowledgment has been handled after main's own requests.
C9_Witness ==
    /\ pc = "loop"
    /\ Acks = 1
    /\ last.kind = "connack"
    /\ Len(SelectSeq(io, IsSubscribe)) = 6

\* C10: a refused acknowledgment prints one 'Connect failed' line and
\* nothing else, issues no request and leaves the process running; a
\* successful acknowledgment after it issues the whole list.
C10_RefusedAckOnlyReports ==
    /\ (last.kind = "connack" /\ last.rc # 0) =>
          /\ NewEffects = <<Printed([kind |-> "connect_failed", rc |-> last.rc])>>
          /\ pc = "loop"
          /\ exitcode = None
    /\ (last.kind = "connack" /\ last.rc = 0
          /\ SelectSeq(io, IsConnectFailed) # <<>>) =>
          /\ Requests(NewEffects) = StatedSubs
          /\ Len(SelectSeq(NewEffects, IsConfirmation)) = 3

\* C10's case: refused first, then accepted after a reconnect.
C10_Witness ==
    /\ last.kind = "connack"
    /\ last.rc = 0
    /\ SelectSeq(io, IsConnectFailed) # <<>>

Typed == args.form

\* typed as scheme://name[:port] with the scheme ssl or tcp, in any case
TypedSslOrTcp == Typed.scheme # <<>> /\ Lower(Typed.scheme) \in {SSL, TCP}

\* typed as a bare hostname
TypedBare == Typed.scheme = <<>>

\* the embedded port is a decimal number
EmbeddedIsNumber ==
    /\ Typed.eport # <<>>
    /\ \A k \in 1..Len(Typed.eport) : Typed.eport[k] \in 48..57

\* the embedded port is a port number
EmbeddedIsPort == EmbeddedIsNumber /\ ParseInt(Typed.eport) \in 1..65535

SchemeDefault == IF Lower(Typed.scheme) = SSL THEN 8883 ELSE 1883

\* C3 as stated: for ssl://h[:p] and tcp://h[:p], encryption exactly for
\* ssl; the scheme's default port without an embedded port and without
\* --port; the embedded port p (a port number, 1..65535), exactly, whenever
\* there is one; any other scheme is an error naming it.  (Read for --port
\* absent or itself a port number.)
C3_AsStated ==
    (target # None /\ ~TypedBare /\ (args.port = None \/ args.port[1] \in 1..65535)) =>
        IF TypedSslOrTcp
        THEN /\ (Typed.eport = <<>> \/ EmbeddedIsPort) => target.ok
             /\ target.ok =>
                  /\ target.use_tls = (Lower(Typed.scheme) = SSL)
                  /\ (Typed.eport = <<>> /\ args.port = None) =>
                        target.port = SchemeDefault
                  /\ EmbeddedIsPort => target.port = ParseInt(Typed.eport)
        ELSE target = UnsupportedScheme(Lower(Typed.scheme))

\* C3, amended: for ssl://h[:p] and tcp://h[:p] an explicit --port is
\* returned whatever the URL embeds; without --port the embedded port p is
\* returned when it is a number in 1..65535, the scheme's default (8883 for
\* ssl, 1883 for tcp) when there is none or it is 0, and a port that is no
\* number or is above 65535 is an error; encryption is on exactly for ssl
\* whenever a result is returned; any other scheme is an error naming it.
C3_SchemeForm ==
    (target # None /\ ~TypedBare) =>
        IF ~TypedSslOrTcp THEN target = UnsupportedScheme(Lower(Typed.scheme))
        ELSE IF args.port # None
             THEN /\ target.ok
                  /\ target.port = args.port[1]
                  /\ target.use_tls = (Lower(Typed.scheme) = SSL)
        ELSE IF Typed.eport = <<>>
             THEN /\ target.ok
                  /\ target.port = SchemeDefault
                  /\ target.use_tls = (Lower(Typed.scheme) = SSL)
        ELSE IF ~EmbeddedIsNumber \/ ParseInt(Typed.eport) > 65535
             THEN ~target.ok /\ target.error = "port"
        ELSE /\ target.ok
             /\ target.port = IF ParseInt(Typed.eport) = 0 THEN SchemeDefault
                              ELSE ParseInt(Typed.eport)
             /\ target.use_tls = (Lower(Typed.scheme) = SSL)

\* C3's case: tcp://...:9000 without --port resolves to 9000, unencrypted.
C3_Witness ==
    /\ target # None
    /\ Typed.scheme = TCP
    /\ Typed.eport = <<57, 48, 48, 48>>
    /\ args.port = None
    /\ target.ok
    /\ target.port = 9000
    /\ ~target.use_tls

\* C4: a bare hostname comes back unchanged, with port 8883 when --port is
\* absent and the --port value otherwise, and with encryption exactly when
\* that port is 8883.
C4_BareHostname ==
    (target # None /\ TypedBare) =>
        /\ target.ok
        /\ target.host = args.host
        /\ target.port = (IF args.port = None THEN 8883 ELSE args.port[1])
        /\ target.use_tls = (target.port = 8883)
        /\ args.port = Some(8883) => target.use_tls
        /\ (args.port # None /\ args.port # Some(8883)) => ~target.use_tls

\* C4's case: a bare hostname with --port 1883 resolves unencrypted.
C4_Witness ==
    /\ target # None
    /\ TypedBare
    /\ args.port = Some(1883)
    /\ target.ok
    /\ target.port = 1883
    /\ ~target.use_tls

\* C5 as stated: a returned port lies in 1..65535, and every connect call
\* is made with the returned host and port, the client built with the
\* returned encryption flag.
C5_AsStated ==
    (target # None /\ target.ok) =>
        /\ target.port \in 1..65535
        /\ \A i \in 1..Len(io) :
              IsConnect(io[i]) => io[i].host = target.host /\ io[i].port = target.port
        /\ client # None => client[1].tls = target.use_tls

\* C2 as stated: the process ends in one of three ways: status 2 for a
\* --host that does not resolve, with no client built and no connect call;
\* status 1 when the first connect call fails; status 0 for an interrupt,
\* after a disconnect request; and an interrupt always ends it that way.
C2_AsStated ==
    /\ exitcode # None =>
          \/ /\ exitcode[1].status = 2
             /\ ~target.ok
             /\ client = None
             /\ SelectSeq(io, IsConnect) = <<>>
          \/ /\ exitcode[1].status = 1
             /\ Len(SelectSeq(io, IsConnect)) = 1
             /\ IsConnect(io[Len(io) - 1])
             /\ io[Len(io)] = Printed([kind |-> "connection_error"])
          \/ /\ exitcode[1].status = 0
             /\ last.kind = "sigint"
             /\ io[Len(io)].op = "disconnect"
    /\ last.kind = "sigint" =>
          /\ exitcode # None
          /\ exitcode[1].status = 0
          /\ io # <<>>
          /\ io[Len(io)].op = "disconnect"

\* What does hold of C2: once handle_sigint is installed the process ends
\* in the three stated ways only; before that an interrupt ends it through
\* KeyboardInterrupt.
ExitStatusOnceInstalled ==
    /\ exitcode # None =>
          \/ /\ exitcode[1] = [how |-> "return", status |-> 2]
             /\ ~target.ok
             /\ client = None
             /\ SelectSeq(io, IsConnect) = <<>>
          \/ /\ exitcode[1] = [how |-> "return", status |-> 1]
             /\ Len(SelectSeq(io, IsConnect)) = 1
             /\ io[Len(io)] = Printed([kind |-> "connection_error"])
          \/ /\ exitcode[1] = [how |-> "sys.exit", status |-> 0]
             /\ handler
             /\ last.kind = "sigint"
             /\ io[Len(io)].op = "disconnect"
          \/ /\ exitcode[1].how = "KeyboardInterrupt"
             /\ ~handler
             /\ last.kind = "sigint"
    /\ (last.kind \in {"connack", "message", "drop", "reconnect"}) => exitcode = None

\* the message of the last event was rendered without a raise
Rendered == last.kind = "message" /\ last.fail = 0

\* the topic ends with the seven characters of '/status'
StatedStatusTopic(t) ==
    /\ Len(t) >= 7
    /\ [k \in 1..7 |-> t[Len(t) - 7 + k]] = <<47, 115, 116, 97, 116, 117, 115>>

\* the number of bytes in 32..126 or equal to 9, 10 or 13
StatedTextCount(p) ==
    Cardinality({j \in 1..Len(p) : p[j] \in 32..126 \/ p[j] \in {9, 10, 13}})

\* empty, or the count divided by the length is above 0.85 = 17/20
StatedMostlyText(p) == p = <<>> \/ 20 * StatedTextCount(p) > 17 * Len(p)

ShownAsText(m) ==
    /\ Len(NewEffects) = 1
    /\ NewEffects[1].op = "print"
    /\ NewEffects[1].line.kind = "text"
    /\ NewEffects[1].line.info = [topic |-> m.topic, qos |-> m.qos, nbytes |-> Len(Payload(m))]
    /\ Len(NewEffects[1].line.text) = Len(Payload(m))
    /\ \A k \in 1..Len(Payload(m)) :
          Payload(m)[k] < 128 => NewEffects[1].line.text[k] = Payload(m)[k]

ShownAsDump(m) ==
    /\ Len(NewEffects) = 2
    /\ NewEffects[1] = Printed([kind |-> "header",
                                info |-> [topic |-> m.topic, qos |-> m.qos,
                                          nbytes |-> Len(Payload(m))]])
    /\ NewEffects[2].op = "print"
    /\ NewEffects[2].line.kind = "dump"

\* C7: a message is shown as decoded text on its header line exactly when
\* its topic ends with '/status' and its payload is mostly text, and as a
\* header line followed by a hex dump otherwise; mostly text means empty or
\* more than 0.85 of the bytes in 32..126 or equal to 9, 10, 13: 90 of 100
\* is text, 85 of 100 and 80 of 100 are not.
C7_TextExactlyForMostlyTextStatus ==
    Rendered =>
        /\ IF StatedStatusTopic(last.msg.topic) /\ StatedMostlyText(Payload(last.msg))
           THEN ShownAsText(last.msg)
           ELSE ShownAsDump(last.msg)
        /\ (StatedStatusTopic(last.msg.topic) /\ Len(Payload(last.msg)) = 100) =>
              /\ StatedTextCount(Payload(last.msg)) = 90 => ShownAsText(last.msg)
              /\ StatedTextCount(Payload(last.msg)) \in {80, 85} => ShownAsDump(last.msg)

\* C7's case: a status payload of 100 bytes, 90 of them text, shown as text.
C7_Witness ==
    /\ Rendered
    /\ StatedStatusTopic(last.msg.topic)
    /\ Len(Payload(last.msg)) = 100
    /\ StatedTextCount(Payload(last.msg)) = 90
    /\ ShownAsText(last.msg)

IsHexChar(c) == c \in 48..57 \/ c \in 97..102

RECURSIVE ParseHex(_)
\* int(s, 16) of a string of lowercase hexadecimal digits
ParseHex(s) ==
    IF s = <<>> THEN 0
    ELSE 16 * ParseHex(SubSeq(s, 1, Len(s) - 1))
         + (IF s[Len(s)] <= 57 THEN s[Len(s)] - 48 ELSE s[Len(s)] - 87)

\* the offset field of a row: what stands before its first space
OffsetField(row) == SubSeq(row, 1, Find(row, <<32>>))

\* the lines of the dump just printed
DumpLines == NewEffects[2].line.lines

\* Row k (from 0) of the dump of p, its offset field f characters wide:
\* the field is hexadecimal and reads 16k; then two spaces, a column of 48
\* with one hex pair per covered byte, two spaces, and one ASCII character
\* per covered byte, '.' outside 32..126.
RowAsStated(row, k, p, f) ==
    LET m == (IF 16 * k + 16 <= Len(p) THEN 16 ELSE Len(p) - 16 * k) IN
    /\ m \in 1..16
    /\ f > 0
    /\ \A j \in 1..f : IsHexChar(row[j])
    /\ ParseHex(SubSeq(row, 1, f)) = 16 * k
    /\ Len(row) = f + 2 + 48 + 2 + m
    /\ \A j \in 1..m :
          /\ IsHexChar(row[f + 3 * j]) /\ IsHexChar(row[f + 3 * j + 1])
          /\ ParseHex(<<row[f + 3 * j], row[f + 3 * j + 1]>>) = p[16 * k + j]
          /\ row[f + 3 * j + 2] = 32
          /\ row[f + 52 + j] = (IF p[16 * k + j] \in 32..126 THEN p[16 * k + j] ELSE 46)
    /\ \A j \in (f + 1)..(f + 52) :
          (j \in {f + 1, f + 2, f + 51, f + 52} \/ j > f + 2 + 3 * m) => row[j] = 32

\* the dump has ceil(n/16) rows, none for an empty payload
RowCountAsStated(lines, p) ==
    /\ 16 * Len(lines) >= Len(p)
    /\ 16 * Len(lines) < Len(p) + 16

\* every row of the dump `lines` of p is as stated, its offset field of 4 digits
DumpAsStated(lines, p) ==
    /\ RowCountAsStated(lines, p)
    /\ \A k \in 0..(Len(lines) - 1) :
          /\ Len(OffsetField(lines[k + 1])) = 4
          /\ RowAsStated(lines[k + 1], k, p, 4)

\* the same with an offset field of 4 digits or, from 65536 on, more
DumpWithWideOffsets(lines, p) ==
    /\ RowCountAsStated(lines, p)
    /\ \A k \in 0..(Len(lines) - 1) :
          /\ Len(OffsetField(lines[k + 1])) >= 4
          /\ 16 * k < 65536 => Len(OffsetField(lines[k + 1])) = 4
          /\ 16 * k >= 65536 => lines[k + 1][1] # 48
          /\ RowAsStated(lines[k + 1], k, p, Len(OffsetField(lines[k + 1])))

\* C8 as stated: ceil(n/16) rows; row k covers bytes 16k..min(16k+15, n-1)
\* with a hex pair and an ASCII character for each, and starts with an
\* offset field of 4 hex digits that reads 16k.
C8_AsStated ==
    (Rendered /\ Len(NewEffects) = 2) => DumpAsStated(DumpLines, Payload(last.msg))

\* C8, amended: as stated, but the offset field is 16k in hexadecimal,
\* zero-padded to at least 4 digits: 4 digits while 16k < 65536 (payloads
\* of up to 65536 bytes), and as many as 16k needs beyond that; read back as
\* hexadecimal it is 16k in every row.
C8_RowsRoundTrip ==
    (Rendered /\ Len(NewEffects) = 2) => DumpWithWideOffsets(DumpLines, Payload(last.msg))

\* C8's case: a payload of more than 65536 bytes is dumped; its last row
\* starts at byte 65536 and its offset field reads 10000.
C8_Witness ==
    /\ Rendered
    /\ Len(NewEffects) = 2
    /\ Len(Payload(last.msg)) > 65536
    /\ Len(DumpLines) = 4097
    /\ OffsetField(DumpLines[4097]) = <<49, 48, 48, 48, 48>>

====
